---- MODULE Spec2Model ----
(***************************************************************************)
(* Model of the conversational analytics assistant:                        *)
(*   - memory.py          MemoryManager (bounded per-session history)      *)
(*   - database.py        validate_sql_safety / execute_safe_query         *)
(*   - openai_handler.py  OpenAIHandler.process_message (one chat turn)    *)
(*                                                                         *)
(* Texts are sequences of one-character strings (SQL) or of fragments      *)
(* (messages built with f-strings); a Python dict is a function whose      *)
(* DOMAIN is its key set; an Optional value is a sequence of length 0      *)
(* (None) or 1.                                                            *)
(***************************************************************************)
EXTENDS Integers, Sequences, FiniteSets, TLC

\* ------------------------------------------------------------------ bounds
MaxN == 2          \* largest configured max_messages_per_session
MaxTime == 1       \* the clock runs over 0..MaxTime
MaxAdds == 3       \* direct add_*_message calls when only the store is driven
MaxCalls == 2      \* chat turns and direct add_*_message calls when turns run
MaxTokens == 3     \* tokens of a text handed to validate_sql_safety on its own

\* ------------------------------------------------------- Python primitives
None == << >>
Some(v) == << v >>

EmptyDict == [k \in {} |-> 0]

\* d[k] = v on a dict
Put(d, k, v) == [j \in (DOMAIN d) \cup {k} |-> IF j = k THEN v ELSE d[j]]

\* del d[k]
Del(d, k) == [j \in (DOMAIN d) \ {k} |-> d[j]]

\* d.get(k, default)
Get(d, k, default) == IF k \in DOMAIN d THEN d[k] ELSE default

\* truthiness of a str, a list or a dict
Truthy(v) == v # << >>

\* truthiness of an Optional str or list: None, "" and [] are false
TruthyOpt(opt) == opt # None /\ opt[1] # << >>

\* list[-n:] for n >= 0 (list[-0:] is list[0:], the whole list)
SliceLast(list, n) ==
    IF n = 0 \/ n >= Len(list) THEN list
    ELSE SubSeq(list, Len(list) - n + 1, Len(list))

\* list[:n] for n >= 0
SliceFirst(list, n) == IF n >= Len(list) THEN list ELSE SubSeq(list, 1, n)

\* list[:-1]
SliceButLast(list) == IF list = << >> THEN << >> ELSE SubSeq(list, 1, Len(list) - 1)

\* the list without every occurrence of k
RECURSIVE Without(_, _)
Without(list, k) ==
    IF list = << >> THEN << >>
    ELSE IF Head(list) = k THEN Without(Tail(list), k)
    ELSE << Head(list) >> \o Without(Tail(list), k)

\* -------------------------------------------------------------- data sets
SessionIds == {"s1", "s2"}

UserTexts == { <<"hey">>, <<"thanks">> }

\* what the user says in a chat turn
Utterances == { <<"show me emails from Eric">> }

Row1 == [count |-> 2]
Row2 == [Employee |-> 1, SentimentScore |-> 5]

RowSets == { << >>, << Row1 >>, << Row2, Row2, Row2, Row2 >> }

\* ------------------------------------------------------------------- state
VARIABLES
    sessions,            \* MemoryManager.sessions: dict session id -> list of messages
    session_timestamps,  \* MemoryManager.session_timestamps: dict session id -> time
    ts_order,            \* insertion order of the keys of session_timestamps
    max_messages,        \* MemoryManager.max_messages
    now,                 \* datetime.now()
    turn,                \* per worker: the frame of its process_message call
    gate,                \* a call of validate_sql_safety / execute_safe_query on its own
    call,                \* per thread: the frame of its call when callers run in threads
    appended,            \* history: per session, the messages appended since it was created
    last_call,           \* history: the last call on the store, when it was an append
    budget               \* calls still allowed: appending calls of any kind, chat turns

vars == << sessions, session_timestamps, ts_order, max_messages, now,
           turn, gate, call, appended, last_call, budget >>

\* the MemoryManager as one value
Store == [sessions |-> sessions, session_timestamps |-> session_timestamps,
          ts_order |-> ts_order]

\* ---------------------------------------------------------- MemoryManager
\* memory.py:38-43, the message dict built by add_message ("metadata or {}")
Message(role, content, metadata, t) ==
    [role |-> role, content |-> content, timestamp |-> t,
     metadata |-> IF Truthy(metadata) THEN metadata ELSE EmptyDict]

\* a trim that starts one message too late
TrimLate(list, n) == IF Len(list) > n + 1 THEN SliceLast(list, n) ELSE list

\* a trim that keeps the oldest messages
TrimKeepOldest(list, n) == IF Len(list) > n THEN SliceFirst(list, n) ELSE list

\* memory.py:49-51, the trim of add_message
Trim(list, n) == IF Len(list) > n THEN SliceLast(list, n) ELSE list

\* an add_message that refreshes the timestamp of every session
add_message_touching_all(mm, session_id, role, content, metadata, t) ==
    LET created == IF session_id \notin DOMAIN mm.sessions
                   THEN Put(mm.sessions, session_id, << >>)
                   ELSE mm.sessions
        list    == Append(created[session_id], Message(role, content, metadata, t))
        stamped == Put(mm.session_timestamps, session_id, t)
    IN  [sessions |-> Put(created, session_id, Trim(list, max_messages)),
         session_timestamps |-> [k \in DOMAIN stamped |-> t],
         ts_order |-> IF session_id \in DOMAIN mm.session_timestamps
                      THEN mm.ts_order
                      ELSE Append(mm.ts_order, session_id)]

\* memory.py:25-53
add_message(mm, session_id, role, content, metadata, t) ==
    LET created == IF session_id \notin DOMAIN mm.sessions
                   THEN Put(mm.sessions, session_id, << >>)
                   ELSE mm.sessions
        list    == Append(created[session_id], Message(role, content, metadata, t))
    IN  [sessions |-> Put(created, session_id, Trim(list, max_messages)),
         session_timestamps |-> Put(mm.session_timestamps, session_id, t),
         ts_order |-> IF session_id \in DOMAIN mm.session_timestamps
                      THEN mm.ts_order
                      ELSE Append(mm.ts_order, session_id)]

\* memory.py:160-162
add_user_message(mm, session_id, content, t) ==
    add_message(mm, session_id, "user", content, None, t)

\* memory.py:167-171, the metadata dict built by add_assistant_message from
\* its Optional arguments
AssistantMetadata(sql_query, sql_results) ==
    LET m1 == IF TruthyOpt(sql_query) THEN Put(EmptyDict, "sql_query", sql_query[1])
              ELSE EmptyDict
    IN  IF TruthyOpt(sql_results) THEN Put(m1, "sql_results", sql_results[1]) ELSE m1

\* memory.py:165-173
add_assistant_message(mm, session_id, content, sql_query, sql_results, t) ==
    add_message(mm, session_id, "assistant", content,
                AssistantMetadata(sql_query, sql_results), t)

\* memory.py:55-83; limit is None or Some(n)
get_conversation_history(mm, session_id, limit) ==
    IF session_id \notin DOMAIN mm.sessions THEN << >>
    ELSE LET all      == mm.sessions[session_id]
             messages == IF limit # None /\ limit[1] # 0
                         THEN SliceLast(all, limit[1]) ELSE all
         IN  [i \in 1..Len(messages) |->
                 [role |-> messages[i].role, content |-> messages[i].content]]

\* a scan that starts from the oldest message
RECURSIVE LastMetadataOldest(_, _)
LastMetadataOldest(list, key) ==
    IF list = << >> THEN None
    ELSE IF Truthy(Get(Head(list).metadata, key, None))
    THEN Some(Head(list).metadata[key])
    ELSE LastMetadataOldest(Tail(list), key)

\* memory.py:94-98 and 109-113: scan from the newest message for a truthy
\* metadata[key]; None when there is none
RECURSIVE LastMetadata(_, _)
LastMetadata(list, key) ==
    IF list = << >> THEN None
    ELSE LET message == list[Len(list)]
         IN  IF Truthy(Get(message.metadata, key, None))
             THEN Some(message.metadata[key])
             ELSE LastMetadata(SliceButLast(list), key)

\* memory.py:85-98
get_last_sql_query(mm, session_id) ==
    IF session_id \notin DOMAIN mm.sessions THEN None
    ELSE LastMetadata(mm.sessions[session_id], "sql_query")

\* memory.py:100-113
get_last_sql_results(mm, session_id) ==
    IF session_id \notin DOMAIN mm.sessions THEN None
    ELSE LastMetadata(mm.sessions[session_id], "sql_results")

\* a session info that looks for a query in the newest message only
get_session_info_newest(mm, session_id) ==
    IF session_id \notin DOMAIN mm.sessions THEN [exists |-> FALSE]
    ELSE IF session_id \notin DOMAIN mm.session_timestamps THEN [raised |-> "KeyError"]
    ELSE LET list == mm.sessions[session_id]
         IN  [exists |-> TRUE,
              message_count |-> Len(list),
              last_activity |-> mm.session_timestamps[session_id],
              has_sql_history |->
                  /\ list # << >>
                  /\ Truthy(Get(list[Len(list)].metadata, "sql_query", None))]

\* memory.py:131-146; session_timestamps[session_id] raises KeyError when the
\* key is missing
get_session_info(mm, session_id) ==
    IF session_id \notin DOMAIN mm.sessions THEN [exists |-> FALSE]
    ELSE IF session_id \notin DOMAIN mm.session_timestamps THEN [raised |-> "KeyError"]
    ELSE [exists |-> TRUE,
          message_count |-> Len(mm.sessions[session_id]),
          last_activity |-> mm.session_timestamps[session_id],
          has_sql_history |->
              \E i \in 1..Len(mm.sessions[session_id]) :
                  Truthy(Get(mm.sessions[session_id][i].metadata, "sql_query", None))]

\* a clear that leaves the message list in place
\* the store after a read if self.sessions were a defaultdict(list): looking up
\* an unknown id would create its list
StoreAfterReadDefaultDict(mm, op, session_id) ==
    IF session_id \in DOMAIN mm.sessions THEN mm
    ELSE [mm EXCEPT !.sessions = Put(mm.sessions, session_id, << >>)]

\* memory.py:55-113 and 131-146: the store after get_conversation_history,
\* get_last_sql_query, get_last_sql_results or get_session_info. Each tests
\* "session_id not in self.sessions" on a plain dict (memory.py:21) before it
\* indexes it, builds its result from new dicts or .get(), and assigns to
\* neither self.sessions nor self.session_timestamps
StoreAfterRead(mm, op, session_id) == mm

clear_session_skipped(mm, session_id) == mm

\* memory.py:148-152
clear_session(mm, session_id) ==
    IF session_id \in DOMAIN mm.sessions
    THEN [mm EXCEPT !.sessions = Del(mm.sessions, session_id)]
    ELSE mm

\* a scan that also takes the sessions whose timestamp is the cutoff itself
RECURSIVE SessionsToRemoveInclusive(_, _, _)
SessionsToRemoveInclusive(mm, order, cutoff) ==
    IF order = << >> THEN << >>
    ELSE (IF mm.session_timestamps[Head(order)] <= cutoff THEN << Head(order) >> ELSE << >>)
         \o SessionsToRemoveInclusive(mm, Tail(order), cutoff)

\* memory.py:120-124: the ids whose timestamp is before the cutoff, in the
\* iteration order of session_timestamps
RECURSIVE SessionsToRemove(_, _, _)
SessionsToRemove(mm, order, cutoff) ==
    IF order = << >> THEN << >>
    ELSE (IF mm.session_timestamps[Head(order)] < cutoff THEN << Head(order) >> ELSE << >>)
         \o SessionsToRemove(mm, Tail(order), cutoff)

\* memory.py:126-129: the deleting loop; "del self.sessions[session_id]"
\* raises KeyError for an id with no message list, which ends the sweep
RECURSIVE RemoveSessions(_, _)
RemoveSessions(mm, ids) ==
    IF ids = << >> THEN [store |-> mm, raised |-> FALSE]
    ELSE IF Head(ids) \notin DOMAIN mm.sessions THEN [store |-> mm, raised |-> TRUE]
    ELSE RemoveSessions(
            [sessions |-> Del(mm.sessions, Head(ids)),
             session_timestamps |-> Del(mm.session_timestamps, Head(ids)),
             ts_order |-> Without(mm.ts_order, Head(ids))],
            Tail(ids))

\* memory.py:115-129
cleanup_old_sessions(mm, hours, t) ==
    RemoveSessions(mm, SessionsToRemove(mm, mm.ts_order, t - hours))

\* ------------------------------------------------------------ str methods
\* str.upper() on one character (ASCII letters; other characters are kept)
UpperTable ==
    ("a" :> "A") @@ ("b" :> "B") @@ ("c" :> "C") @@ ("d" :> "D") @@ ("e" :>
    "E") @@ ("f" :> "F") @@ ("g" :> "G") @@ ("h" :> "H") @@ ("i" :> "I") @@
    ("j" :> "J") @@ ("k" :> "K") @@ ("l" :> "L") @@ ("m" :> "M") @@ ("n" :>
    "N") @@ ("o" :> "O") @@ ("p" :> "P") @@ ("q" :> "Q") @@ ("r" :> "R") @@
    ("s" :> "S") @@ ("t" :> "T") @@ ("u" :> "U") @@ ("v" :> "V") @@ ("w" :>
    "W") @@ ("x" :> "X") @@ ("y" :> "Y") @@ ("z" :> "Z")

UpperChar(c) == IF c \in DOMAIN UpperTable THEN UpperTable[c] ELSE c

\* str.upper()
Upper(text) == [i \in 1..Len(text) |-> UpperChar(text[i])]

\* the characters str.strip() removes
Whitespace == {" ", "\t", "\n", "\r"}

RECURSIVE LStrip(_)
LStrip(text) ==
    IF text # << >> /\ Head(text) \in Whitespace THEN LStrip(Tail(text)) ELSE text

RECURSIVE RStrip(_)
RStrip(text) ==
    IF text # << >> /\ text[Len(text)] \in Whitespace
    THEN RStrip(SliceButLast(text)) ELSE text

\* str.strip()
Strip(text) == RStrip(LStrip(text))

\* str.startswith(prefix)
StartsWith(text, prefix) ==
    Len(prefix) <= Len(text) /\ SubSeq(text, 1, Len(prefix)) = prefix

\* "sub in text"
Contains(text, sub) ==
    \E i \in 0..(Len(text) - Len(sub)) : SubSeq(text, i + 1, i + Len(sub)) = sub

\* ------------------------------------------------------- DatabaseManager
KW_DROP == << "D", "R", "O", "P" >>
KW_DELETE == << "D", "E", "L", "E", "T", "E" >>
KW_INSERT == << "I", "N", "S", "E", "R", "T" >>
KW_UPDATE == << "U", "P", "D", "A", "T", "E" >>
KW_CREATE == << "C", "R", "E", "A", "T", "E" >>
KW_ALTER == << "A", "L", "T", "E", "R" >>
KW_TRUNCATE == << "T", "R", "U", "N", "C", "A", "T", "E" >>
KW_GRANT == << "G", "R", "A", "N", "T" >>
KW_REVOKE == << "R", "E", "V", "O", "K", "E" >>
KW_EXEC == << "E", "X", "E", "C" >>
KW_EXECUTE == << "E", "X", "E", "C", "U", "T", "E" >>

KW_SELECT == << "S", "E", "L", "E", "C", "T" >>
KW_WITH == << "W", "I", "T", "H" >>

\* database.py:122-125
dangerous_keywords ==
    << KW_DROP, KW_DELETE, KW_INSERT, KW_UPDATE, KW_CREATE, KW_ALTER,
       KW_TRUNCATE, KW_GRANT, KW_REVOKE, KW_EXEC, KW_EXECUTE >>

\* a normalisation that forgets to upper-case
NormalizeNoUpper(sql) == Strip(sql)

\* database.py:119
Normalize(sql) == Strip(Upper(sql))

\* database.py:127-130
HasDangerousKeyword(sql_upper) ==
    \E k \in 1..Len(dangerous_keywords) : Contains(sql_upper, dangerous_keywords[k])

\* a start check that forgets WITH
HasSelectStart(sql_upper) == StartsWith(sql_upper, KW_SELECT)

\* database.py:133
HasAllowedStart(sql_upper) ==
    StartsWith(sql_upper, KW_SELECT) \/ StartsWith(sql_upper, KW_WITH)

\* database.py:114-137
validate_sql_safety(sql) ==
    LET sql_upper == Normalize(sql)
    IN  IF HasDangerousKeyword(sql_upper) THEN FALSE
        ELSE IF ~HasAllowedStart(sql_upper) THEN FALSE
        ELSE TRUE

\* ---------------------------------------------------------- OpenAIHandler
\* response texts; an f-string is the concatenation of its fragments
DirectDefault == << "I didn't quite understand that. Could you try rephrasing?" >>
FallbackError ==
    << "Sorry, I encountered an error processing your request. Please try again." >>
UnknownFunctionError == << "I encountered an unexpected error. Please try again." >>
FormatDefault == << "I couldn't format the results properly." >>
NoResults == << "No matching results found." >>

\* database.py:145, 87, 90: the messages of DatabaseError
RejectedMessage == << "SQL query failed safety validation" >>
QueryFailedMessage(e) == << "Database query failed: " >> \o e
UnexpectedMessage(e) == << "Unexpected database error: " >> \o e

\* an exception: its class (DatabaseError or any other Exception) and str(e)
DatabaseError(text) == [class |-> "DatabaseError", text |-> text]
OtherException(text) == [class |-> "Exception", text |-> text]

\* openai_handler.py:213
DatabaseErrorResponse(e) == << "I encountered a database error: " >> \o e.text

\* json.dumps(value, default=str, indent=2): an injective rendering
JsonDumps(value) == ToString(value)

\* the statements the model may put in an execute_sql call
SqlSelect == << "S", "E", "L", "E", "C", "T", " ", "1" >>
SqlLower == << " ", "s", "e", "l", "e", "c", "t", " ", "x", " " >>
SqlDrop == << "D", "R", "O", "P", " ", "T", "A", "B", "L", "E", " ", "t" >>
SqlDropbox == << "S", "E", "L", "E", "C", "T", " ", "'", "D", "R", "O", "P", "B", "O", "X", "'" >>

SqlSelectInto ==
    << "S", "E", "L", "E", "C", "T", " ", "1", " ", "I", "N", "T", "O", " ", "t", "2" >>

ModelQueries == { SqlSelect, SqlDrop, SqlDropbox, SqlSelectInto }

\* what the first model call can give back (openai_handler.py:104-112): an
\* exception, a plain message, or a tool call whose arguments are a JSON text
\* that is malformed, an object, or another JSON value
ModelFailure == OtherException(<< "Connection error." >>)
JsonFailure == OtherException(<< "Expecting value: line 1 column 1 (char 0)" >>)
NotADictFailure == OtherException(<< "'list' object has no attribute 'get'" >>)
SerialiseFailure == OtherException(<< "Circular reference detected" >>)

ToolArguments ==
    { [json |-> "malformed"], [json |-> "array"], [json |-> "object", value |-> EmptyDict] }
    \cup { [json |-> "object", value |-> [query |-> q]] : q \in ModelQueries }
    \cup { [json |-> "object", value |-> [message |-> << "Hi! How can I help?" >>]] }

ModelReplies ==
    { [kind |-> "raise"] }
    \cup { [kind |-> "content", content |-> c] : c \in { None, << "Hello there." >> } }
    \cup { [kind |-> "tool", name |-> n, arguments |-> a] :
             n \in { "execute_sql", "respond_directly", "get_weather" },
             a \in ToolArguments }

\* what the store can answer to execute_query (database.py:69-90): rows, a row
\* count, a psycopg2.Error from the statement or from connect, another exception
StoreErrors == { << "relation \"t\" does not exist" >> }

DbReplies ==
    { [kind |-> "rows", rows |-> r] : r \in RowSets }
    \cup { [kind |-> "affected", rowcount |-> 1] }
    \cup { [kind |-> "driver_error", text |-> e] : e \in StoreErrors }
    \cup { [kind |-> "connect_error", text |-> << "could not connect to server" >>] }
    \cup { [kind |-> "other_error", text |-> << "connection reset" >>] }

\* database.py:75: cursor.description is None for a statement that gives no
\* result set; in PostgreSQL "SELECT ... INTO table" creates the table and gives
\* none
ReturnsNoResultSet(sql) == Contains(Normalize(sql), << " ", "I", "N", "T", "O", " " >>)

\* what the summarising model call can give back (openai_handler.py:257-263)
SummaryReplies ==
    { [kind |-> "raise"] }
    \cup { [kind |-> "content", content |-> c] : c \in { None, << "Found 2 emails." >> } }

\* the frame of a worker that is not handling a turn
IdleTurn ==
    [pc |-> "idle", session_id |-> "", user_message |-> << >>, messages |-> << >>,
     reply |-> [kind |-> "none"], summary |-> [kind |-> "none"],
     sql_query |-> None, sql_results |-> None,
     result |-> EmptyDict, raised |-> FALSE,
     appends |-> << >>, executed |-> << >>, failures |-> {}, store_error |-> None,
     logged |-> {}, connection |-> [opened |-> 0, closed |-> 0, transaction |-> "none"]]

\* prompts.py:5, the system prompt
SYSTEM_PROMPT == << "You are a helpful and intelligent assistant ..." >>

\* openai_handler.py:52, the limit of the history read
HistoryLimit == 10

\* openai_handler.py:123-131
DirectOutcome(content) ==
    [response |-> content, type |-> "direct",
     debug |-> [function_called |-> None, sql_query |-> None, sql_results |-> None]]

\* openai_handler.py:138-147
ErrorOutcome(e) ==
    [response |-> FallbackError, type |-> "error",
     debug |-> [error |-> e.text, function_called |-> None,
                sql_query |-> None, sql_results |-> None]]

\* an unknown function answered like a direct reply
UnknownFunctionOutcomeDirect(function_name) ==
    [response |-> UnknownFunctionError, type |-> "direct",
     debug |-> [error |-> << "Unknown function: ", function_name >>]]

\* openai_handler.py:165-169
UnknownFunctionOutcome(function_name) ==
    [response |-> UnknownFunctionError, type |-> "error",
     debug |-> [error |-> << "Unknown function: ", function_name >>]]

\* openai_handler.py:200-209
SqlOutcome(formatted_response, sql_query, sql_results) ==
    [response |-> formatted_response, type |-> "sql_analysis",
     debug |-> [function_called |-> << "execute_sql" >>, sql_query |-> sql_query,
                sql_results |-> sql_results, result_count |-> Len(sql_results)]]

\* openai_handler.py:216-225
DatabaseErrorOutcome(sql_query, e) ==
    [response |-> DatabaseErrorResponse(e), type |-> "database_error",
     debug |-> [function_called |-> << "execute_sql" >>, sql_query |-> sql_query,
                sql_results |-> None, error |-> e.text]]

\* openai_handler.py:234-242
ConversationalOutcome(response_message) ==
    [response |-> response_message, type |-> "conversational",
     debug |-> [function_called |-> << "respond_directly" >>,
                sql_query |-> None, sql_results |-> None]]

\* A step of the handler gives the worker's next frame and, when it calls
\* add_assistant_message, the arguments of that call.
Say(frame, content, sql_query, sql_results, outcome) ==
    [frame |-> [frame EXCEPT !.pc = "done", !.result = outcome],
     say |-> Some([content |-> content, sql_query |-> sql_query,
                   sql_results |-> sql_results])]

Silent(frame) == [frame |-> frame, say |-> None]

\* openai_handler.py:211, "except DatabaseError"
CaughtAsDatabaseError(e) == e.class = "DatabaseError"

\* a top-level guard that catches DatabaseError only
CaughtOnlyDatabaseError(e) == e.class = "DatabaseError"

\* openai_handler.py:133, "except Exception" (DatabaseError is an Exception)
CaughtAtTopLevel(e) == e.class \in { "DatabaseError", "Exception" }

\* a handler that stores the failed query with the error message
DatabaseErrorHandlerKeepsQuery(frame, e) ==
    Say([frame EXCEPT !.logged = @ \cup { e.text }],
        DatabaseErrorResponse(e), Some(frame.sql_query), None,
        DatabaseErrorOutcome(frame.sql_query, e))

\* a handler that returns the error outcome without appending it
DatabaseErrorHandlerSilent(frame, e) ==
    Silent([frame EXCEPT !.pc = "done",
                         !.result = DatabaseErrorOutcome(frame.sql_query, e)])

\* openai_handler.py:211-225, the handler of _execute_sql_function
DatabaseErrorHandler(frame, e) ==
    Say([frame EXCEPT !.logged = @ \cup { e.text }],
        DatabaseErrorResponse(e), None, None,
        DatabaseErrorOutcome(frame.sql_query, e))

\* openai_handler.py:133-147, the handler of process_message
TopLevelHandler(frame, e) ==
    Say([frame EXCEPT !.logged = @ \cup { e.text }],
        FallbackError, None, None, ErrorOutcome(e))

\* An exception e raised at a point of the turn: in_try_sql says whether the
\* point lies inside the try of _execute_sql_function (lines 176-209). What no
\* handler catches reaches the caller of process_message.
Raise(frame, e, in_try_sql) ==
    IF in_try_sql /\ CaughtAsDatabaseError(e) THEN DatabaseErrorHandler(frame, e)
    ELSE IF CaughtAtTopLevel(e) THEN TopLevelHandler(frame, e)
    ELSE Silent([frame EXCEPT !.pc = "done", !.raised = TRUE])

\* openai_handler.py:227-242
respond_directly_function(frame, function_args) ==
    IF function_args.json # "object"
    THEN Raise([frame EXCEPT !.failures = @ \cup { "arguments" }], NotADictFailure, FALSE)
    ELSE LET response_message == Get(function_args.value, "message", << >>)
         IN  Say(frame, response_message, None, None,
                 ConversationalOutcome(response_message))

\* an execute_safe_query that hands on the normalised text
execute_normalized_query(sql) ==
    IF ~validate_sql_safety(sql)
    THEN [raised |-> TRUE, error |-> DatabaseError(RejectedMessage), handed |-> None]
    ELSE [raised |-> FALSE, error |-> None, handed |-> Some(Normalize(sql))]

\* an execute_safe_query that skips the validation
execute_unchecked_query(sql) == [raised |-> FALSE, error |-> None, handed |-> Some(sql)]

\* database.py:139-147: execute_safe_query raises, or hands a text to
\* execute_query
execute_safe_query(sql) ==
    IF ~validate_sql_safety(sql)
    THEN [raised |-> TRUE, error |-> DatabaseError(RejectedMessage), handed |-> None]
    ELSE [raised |-> FALSE, error |-> None, handed |-> Some(sql)]

\* openai_handler.py:171-178: up to the moment execute_sql (database.py:160-162)
\* either raises or has called execute_query
execute_sql_function(frame, function_args) ==
    IF function_args.json # "object"
    THEN Raise([frame EXCEPT !.failures = @ \cup { "arguments" }], NotADictFailure, FALSE)
    ELSE LET sql_query == Get(function_args.value, "query", << >>)
             called    == [frame EXCEPT !.sql_query = sql_query]
             safe      == execute_safe_query(sql_query)
         IN  IF safe.raised
             THEN Raise([called EXCEPT !.failures = @ \cup { "gate" }], safe.error, TRUE)
             ELSE Silent([called EXCEPT !.pc = "db",
                                        !.executed = Append(@, safe.handed[1])])

\* openai_handler.py:149-169
handle_function_call(frame, tool_call) ==
    IF tool_call.arguments.json = "malformed"
    THEN Raise([frame EXCEPT !.failures = @ \cup { "arguments" }], JsonFailure, FALSE)
    ELSE IF tool_call.name = "execute_sql"
    THEN execute_sql_function(frame, tool_call.arguments)
    ELSE IF tool_call.name = "respond_directly"
    THEN respond_directly_function(frame, tool_call.arguments)
    ELSE Say(frame, UnknownFunctionError, None, None,
             UnknownFunctionOutcome(tool_call.name))

\* openai_handler.py:104-131: the first model call has answered
AfterModelCall(frame, reply) ==
    LET got == [frame EXCEPT !.reply = reply]
    IN  IF reply.kind = "raise"
        THEN Raise([got EXCEPT !.failures = @ \cup { "model" }], ModelFailure, FALSE)
        ELSE IF reply.kind = "tool" THEN handle_function_call(got, reply)
        ELSE LET content == IF Truthy(reply.content) THEN reply.content
                            ELSE DirectDefault
             IN  Say(got, content, None, None, DirectOutcome(content))

\* before any call the handler has no connection
NoConnection == [opened |-> 0, closed |-> 0, transaction |-> "none"]

\* database.py:39-53 around the body of execute_query: the connections opened
\* and closed, and what was called on the transaction the statement began
\* ("open": neither commit nor rollback). connect raises before there is a
\* connection; rollback is called for a psycopg2.Error only; close always;
\* commit never
get_connection(db) ==
    IF db.kind = "connect_error" THEN NoConnection
    ELSE [opened |-> 1, closed |-> 1,
          transaction |-> IF db.kind = "driver_error" THEN "rolled_back" ELSE "open"]

\* an execute_query without the clause "except Exception"
execute_query_raw(db) ==
    IF db.kind = "rows" THEN [ok |-> TRUE, value |-> db.rows]
    ELSE IF db.kind = "affected"
    THEN [ok |-> TRUE, value |-> << [affected_rows |-> db.rowcount] >>]
    ELSE IF db.kind \in { "driver_error", "connect_error" }
    THEN [ok |-> FALSE, error |-> DatabaseError(QueryFailedMessage(db.text))]
    ELSE [ok |-> FALSE, error |-> OtherException(db.text)]

\* database.py:69-90: what execute_query gives for an answer of the store
execute_query(db) ==
    IF db.kind = "rows" THEN [ok |-> TRUE, value |-> db.rows]
    ELSE IF db.kind = "affected"
    THEN [ok |-> TRUE, value |-> << [affected_rows |-> db.rowcount] >>]
    ELSE IF db.kind \in { "driver_error", "connect_error" }
    THEN [ok |-> FALSE, error |-> DatabaseError(QueryFailedMessage(db.text))]
    ELSE [ok |-> FALSE, error |-> DatabaseError(UnexpectedMessage(db.text))]

\* openai_handler.py:178-185: execute_sql has returned or raised, then the
\* results are serialised for the second model call
AfterExecuteQuery(frame0, db, serialisable) ==
    LET answer == execute_query(db)
        frame  == [frame0 EXCEPT !.connection = get_connection(db)]
    IN  IF ~answer.ok
        THEN Raise([frame EXCEPT !.failures = @ \cup { "store" },
                                 !.store_error = Some(db.text),
                                 !.logged = @ \cup { db.text }],
                   answer.error, TRUE)
        ELSE IF ~serialisable
        THEN Raise([frame EXCEPT !.failures = @ \cup { "serialise" },
                                 !.sql_results = answer.value],
                   SerialiseFailure, TRUE)
        ELSE Silent([frame EXCEPT !.pc = "summarise", !.sql_results = answer.value])

\* a formatter whose preview is not cut to three rows
FallbackFormatAllRows(sql_results) ==
    IF ~Truthy(sql_results) THEN NoResults
    ELSE IF Len(sql_results) = 1 /\ Cardinality(DOMAIN sql_results[1]) = 1
    THEN << "Result: ",
            ToString(sql_results[1][CHOOSE k \in DOMAIN sql_results[1] : TRUE]) >>
    ELSE << "Found ", ToString(Len(sql_results)), " results. ", JsonDumps(sql_results) >>

\* openai_handler.py:265-275, the local formatter
FallbackFormat(sql_results) ==
    IF ~Truthy(sql_results) THEN NoResults
    ELSE IF Len(sql_results) = 1 /\ Cardinality(DOMAIN sql_results[1]) = 1
    THEN << "Result: ",
            ToString(sql_results[1][CHOOSE k \in DOMAIN sql_results[1] : TRUE]) >>
    ELSE << "Found ", ToString(Len(sql_results)), " results. ",
            JsonDumps(SliceFirst(sql_results, 3)) >>

\* openai_handler.py:244-275
get_formatted_response(sql_results, reply) ==
    IF reply.kind = "raise" THEN FallbackFormat(sql_results)
    ELSE IF Truthy(reply.content) THEN reply.content
    ELSE FormatDefault

\* openai_handler.py:188-209: the summarising call has answered
AfterSummaryCall(frame, reply) ==
    LET formatted_response == get_formatted_response(frame.sql_results, reply)
        got   == [frame EXCEPT !.summary = reply]
        noted == IF reply.kind = "raise"
                 THEN [got EXCEPT !.failures = @ \cup { "summary" }] ELSE got
    IN  Say(noted, formatted_response, Some(frame.sql_query), Some(frame.sql_results),
            SqlOutcome(formatted_response, frame.sql_query, frame.sql_results))

\* ------------------------------------------------------------ environment
Turns == { 1, 2 }       \* workers that can handle a chat turn
Hours == { 0, 1 }       \* the ages given to cleanup_old_sessions

\* the bodies of the requests to POST /chat (main.py:79): every utterance for
\* every session, a blank message, and a request without a session id
ChatRequests ==
    { [sessionId |-> s, message |-> m] : s \in SessionIds, m \in Utterances }
    \cup { [sessionId |-> "s1", message |-> << " ", "\n" >>] }
    \cup { [sessionId |-> "", message |-> m] : m \in Utterances }

\* the arguments of a direct add_assistant_message call: content, and the
\* Optional sql_query and sql_results
ApiContents == { << "ok" >> }
ApiMetadata ==
    { << None, None >>,
      << Some(SqlSelect), Some(<< Row1 >>) >>,
      << Some(SqlSelect), Some(<< >>) >>,
      << Some(SqlLower), Some(<< Row2 >>) >> }

\* the texts given to validate_sql_safety on its own: up to MaxTokens tokens
GateTokens ==
    { << "S", "E", "L", "E", "C", "T", " " >>,
      << "s", "e", "l", "e", "c", "t", " " >>,
      << "W", "i", "t", "h", " " >>,
      << " " >>,
      << "\n" >>,
      << "x" >>,
      << "D", "R", "O", "P" >>,
      << "d", "R", "o", "P" >>,
      << "D", "E", "L", "E", "T", "E" >>,
      << "I", "n", "s", "e", "r", "t" >>,
      << "U", "P", "D", "A", "T", "E" >>,
      << "C", "R", "E", "A", "T", "E" >>,
      << "A", "L", "T", "E", "R" >>,
      << "T", "R", "U", "N", "C", "A", "T", "E" >>,
      << "G", "R", "A", "N", "T" >>,
      << "R", "E", "V", "O", "K", "E" >>,
      << "E", "X", "E", "C" >>,
      << "U", "T", "E" >>,
      << "D", "R", "O" >>,
      << "P" >>,
      << "B", "O", "X" >> }

RECURSIVE Flatten(_)
Flatten(tokens) ==
    IF tokens = << >> THEN << >> ELSE Head(tokens) \o Flatten(Tail(tokens))

GateTexts ==
    { Flatten(ts) : ts \in UNION { [1..n -> GateTokens] : n \in 0..MaxTokens } }

\* memory.py:21-22, a MemoryManager without sessions
\* the reading functions of the store
ReadOps == { "get_conversation_history", "get_last_sql_query",
             "get_last_sql_results", "get_session_info" }

EmptyStore == [sessions |-> EmptyDict, session_timestamps |-> EmptyDict, ts_order |-> << >>]

\* the record of the last call on the store: for an append its arguments, for
\* a clear its session (after_clear: the call before it was a clear of the same
\* session), for a sweep its age, the time and the store it started from, and
\* whether it raised
NoCall ==
    [op |-> "none", session_id |-> "", content |-> << >>, sql_query |-> None,
     sql_results |-> None, after_clear |-> FALSE,
     hours |-> 0, at |-> 0, before |-> EmptyStore, raised |-> FALSE]

\* callers of the store that run in threads of their own: two handle a chat
\* turn each, one runs the periodic sweep
TurnThreads == { 1, 2 }
SweepThreads == { 3 }
Threads == TurnThreads \cup SweepThreads

\* what the user of each turn thread says
Said == [t \in TurnThreads |-> IF t = 1 THEN << "show me emails from Eric" >>
                                        ELSE << "thanks" >>]

\* the frame of a thread that has made no call: for process_message its
\* locals user_message, conversation_history and messages and the locals
\* of add_message (missing: the test of line 35; slice: the right-hand side of
\* line 51), for cleanup_old_sessions its locals (size and index: the state of
\* the dict iterator); raised is None or the name of the exception that left
\* the call; appends and deleted_fresh are history
IdleCall ==
    [pc |-> "idle", op |-> "none", session_id |-> "", role |-> "", content |-> << >>,
     user_message |-> << >>, conversation_history |-> << >>, messages |-> << >>,
     missing |-> FALSE, slice |-> << >>, in_handler |-> FALSE, raised |-> None,
     appends |-> << >>,
     cutoff |-> 0, size |-> 0, index |-> 1, sessions_to_remove |-> << >>,
     deleted_fresh |-> FALSE]

GateOff == [stage |-> "off", sql |-> << >>, valid |-> FALSE, handed |-> None]

\* ------------------------------------------------------------------- Init
\* memory.py:20, the default of max_messages_per_session
DefaultMaxMessages == 20

\* memory.py:20-23 and 156: an empty MemoryManager
InitStore ==
    /\ sessions = EmptyDict
    /\ session_timestamps = EmptyDict
    /\ ts_order = << >>
    /\ now = 0
    /\ turn = [t \in Turns |-> IdleTurn]
    /\ call = [t \in Threads |-> IdleCall]
    /\ appended = [s \in SessionIds |-> << >>]
    /\ last_call = NoCall

Init ==
    /\ InitStore
    /\ max_messages \in 1..MaxN
    /\ gate = GateOff
    /\ budget = [calls |-> MaxCalls, turns |-> MaxCalls]

InitStoreOnly ==
    /\ InitStore
    /\ max_messages \in 0..MaxN
    /\ gate = GateOff
    /\ budget = [calls |-> MaxAdds, turns |-> 0]

InitGate ==
    /\ InitStore
    /\ max_messages = DefaultMaxMessages
    /\ gate \in { [GateOff EXCEPT !.stage = "input", !.sql = t] : t \in GateTexts }
    /\ budget = [calls |-> 0, turns |-> 0]

\* the store before callers in threads start
InitThreads ==
    /\ InitStore
    /\ max_messages \in 1..MaxN
    /\ gate = GateOff
    /\ budget = [calls |-> 0, turns |-> 0]

\* ---------------------------------------------------------------- history
Called(op, session_id, content, sql_query, sql_results) ==
    last_call' = [NoCall EXCEPT !.op = op, !.session_id = session_id,
                                !.content = content, !.sql_query = sql_query,
                                !.sql_results = sql_results,
                                !.after_clear = /\ last_call.op = "clear_session"
                                                /\ last_call.session_id = session_id]

Logged(session_id, message) ==
    appended' = [appended EXCEPT ![session_id] =
                    IF session_id \in DOMAIN sessions THEN Append(@, message)
                    ELSE << message >>]

SetStore(mm) ==
    /\ sessions' = mm.sessions
    /\ session_timestamps' = mm.session_timestamps
    /\ ts_order' = mm.ts_order

\* no worker is inside a turn
Quiet == \A t \in Turns : turn[t].pc = "idle"

\* ------------------------------------------------------- store operations
\* memory.py:160-162 called on the global memory_manager
AddUserMessage(session_id, content) ==
    /\ budget.calls > 0
    /\ budget' = [budget EXCEPT !.calls = @ - 1]
    /\ SetStore(add_user_message(Store, session_id, content, now))
    /\ Logged(session_id, Message("user", content, None, now))
    /\ Called("add_user_message", session_id, content, None, None)
    /\ UNCHANGED << max_messages, now, turn, gate, call >>

\* memory.py:165-173 called on the global memory_manager
AddAssistantMessage(session_id, content, sql_query, sql_results) ==
    /\ budget.calls > 0
    /\ budget' = [budget EXCEPT !.calls = @ - 1]
    /\ SetStore(add_assistant_message(Store, session_id, content, sql_query,
                                      sql_results, now))
    /\ Logged(session_id,
              Message("assistant", content, AssistantMetadata(sql_query, sql_results), now))
    /\ Called("add_assistant_message", session_id, content, sql_query, sql_results)
    /\ UNCHANGED << max_messages, now, turn, gate, call >>

\* memory.py:176-186 and 194-196 called on the global memory_manager
\* (main.py:134-140, openai_handler.py:52)
ReadSession(op, session_id) ==
    /\ SetStore(StoreAfterRead(Store, op, session_id))
    /\ last_call' = [NoCall EXCEPT !.op = op, !.session_id = session_id,
                                    !.at = now, !.before = Store]
    /\ UNCHANGED << max_messages, now, turn, gate, call, appended, budget >>

\* memory.py:189-191 (main.py:124-132)
ClearSession(session_id) ==
    /\ SetStore(clear_session(Store, session_id))
    /\ appended' = [appended EXCEPT ![session_id] = << >>]
    /\ Called("clear_session", session_id, << >>, None, None)
    /\ UNCHANGED << max_messages, now, turn, gate, call, budget >>

\* memory.py:115-129
CleanupOldSessions(hours) ==
    LET swept == cleanup_old_sessions(Store, hours, now)
    IN  /\ SetStore(swept.store)
        /\ appended' = [s \in SessionIds |->
                           IF s \in DOMAIN sessions /\ s \notin DOMAIN swept.store.sessions
                           THEN << >> ELSE appended[s]]
        /\ last_call' = [NoCall EXCEPT !.op = "cleanup_old_sessions", !.hours = hours,
                                        !.at = now, !.before = Store,
                                        !.raised = swept.raised]
        /\ UNCHANGED << max_messages, now, turn, gate, call, budget >>

\* time passes
Tick ==
    /\ now < MaxTime
    /\ now' = now + 1
    /\ UNCHANGED << sessions, session_timestamps, ts_order, max_messages,
                    turn, gate, call, appended, last_call, budget >>

\* ------------------------------------------------------------ a chat turn
\* the effect of a step of the handler of worker t on the store and the frame
Apply(t, step) ==
    IF step.say = None
    THEN /\ turn' = [turn EXCEPT ![t] = step.frame]
         /\ UNCHANGED << sessions, session_timestamps, ts_order, appended, last_call >>
    ELSE LET a   == step.say[1]
             sid == step.frame.session_id
             msg == Message("assistant", a.content,
                            AssistantMetadata(a.sql_query, a.sql_results), now)
         IN  /\ SetStore(add_assistant_message(Store, sid, a.content, a.sql_query,
                                               a.sql_results, now))
             /\ Logged(sid, msg)
             /\ Called("add_assistant_message", sid, a.content, a.sql_query,
                       a.sql_results)
             /\ turn' = [turn EXCEPT ![t] = [step.frame EXCEPT !.appends = Append(@, msg)]]

\* a validation that lets every request through
AnyChatRequest(message, session_id) == TRUE

\* main.py:90-94: the request has a message that is not blank and a session id
ValidChatRequest(message, session_id) == Truthy(Strip(message)) /\ session_id # ""

\* main.py:90-94: chat_endpoint raises HTTPException(400) for a request that
\* is not valid, before it calls process_chat_message
ChatRejected(t, session_id, message) ==
    /\ turn[t].pc = "idle"
    /\ budget.turns > 0
    /\ ~ValidChatRequest(message, session_id)
    /\ turn' = [turn EXCEPT ![t] =
                   [IdleTurn EXCEPT !.pc = "rejected", !.session_id = session_id,
                                    !.user_message = message,
                                    !.result =
                                        [status_code |-> 400,
                                         detail |-> IF ~Truthy(Strip(message))
                                                    THEN << "Message cannot be empty" >>
                                                    ELSE << "Session ID is required" >>]]]
    /\ UNCHANGED << sessions, session_timestamps, ts_order, max_messages, now,
                    gate, call, appended, last_call, budget >>

\* openai_handler.py:47-49: process_message appends the user message
TurnStart(t, session_id, user_message) ==
    /\ turn[t].pc = "idle"
    /\ budget.calls > 0 /\ budget.turns > 0
    /\ budget' = [calls |-> budget.calls - 1, turns |-> budget.turns - 1]
    /\ SetStore(add_user_message(Store, session_id, user_message, now))
    /\ Logged(session_id, Message("user", user_message, None, now))
    /\ Called("add_user_message", session_id, user_message, None, None)
    /\ turn' = [turn EXCEPT ![t] =
                   [IdleTurn EXCEPT !.pc = "history", !.session_id = session_id,
                                    !.user_message = user_message,
                                    !.appends = << Message("user", user_message, None, now) >>]]
    /\ UNCHANGED << max_messages, now, gate, call >>

\* openai_handler.py:52-61: the context for the model
ReadHistory(t) ==
    /\ turn[t].pc = "history"
    /\ LET conversation_history ==
               get_conversation_history(Store, turn[t].session_id, Some(HistoryLimit))
       IN  turn' = [turn EXCEPT ![t].pc = "decide",
                                ![t].messages =
                                    << [role |-> "system", content |-> SYSTEM_PROMPT] >>
                                    \o SliceButLast(conversation_history)
                                    \o << [role |-> "user",
                                           content |-> turn[t].user_message] >>]
    /\ UNCHANGED << sessions, session_timestamps, ts_order, max_messages, now,
                    gate, call, appended, last_call, budget >>

\* openai_handler.py:104-131 and 149-178: the first model call answers and the
\* handler runs until it returns or calls the store
ModelReply(t) ==
    /\ turn[t].pc = "decide"
    /\ \E reply \in ModelReplies : Apply(t, AfterModelCall(turn[t], reply))
    /\ UNCHANGED << max_messages, now, gate, call, budget >>

\* database.py:55-90 and openai_handler.py:178-185: the store answers
DbReply(t) ==
    /\ turn[t].pc = "db"
    /\ \E db \in DbReplies, serialisable \in BOOLEAN :
           /\ db.kind = "rows" => ~ReturnsNoResultSet(turn[t].sql_query)
           /\ db.kind = "affected" => ReturnsNoResultSet(turn[t].sql_query)
           /\ Apply(t, AfterExecuteQuery(turn[t], db, serialisable))
    /\ UNCHANGED << max_messages, now, gate, call, budget >>

\* openai_handler.py:188-209 and 244-275: the summarising call answers
SummaryReply(t) ==
    /\ turn[t].pc = "summarise"
    /\ \E reply \in SummaryReplies : Apply(t, AfterSummaryCall(turn[t], reply))
    /\ UNCHANGED << max_messages, now, gate, call, budget >>

\* process_message has returned (or raised) to its caller, or chat_endpoint
\* has rejected the request
TurnReturn(t) ==
    /\ turn[t].pc \in { "done", "rejected" }
    /\ turn' = [turn EXCEPT ![t] = IdleTurn]
    /\ UNCHANGED << sessions, session_timestamps, ts_order, max_messages, now,
                    gate, call, appended, last_call, budget >>

\* --------------------------------------------------- the gate on its own
\* database.py:114-137
GateValidate ==
    /\ gate.stage = "input"
    /\ gate' = [gate EXCEPT !.stage = "validated", !.valid = validate_sql_safety(gate.sql)]
    /\ UNCHANGED << sessions, session_timestamps, ts_order, max_messages, now,
                    turn, call, appended, last_call, budget >>

\* database.py:139-147
GateExecuteSafe ==
    /\ gate.stage = "validated"
    /\ gate' = [gate EXCEPT !.stage = "executed",
                            !.handed = execute_safe_query(gate.sql).handed]
    /\ UNCHANGED << sessions, session_timestamps, ts_order, max_messages, now,
                    turn, call, appended, last_call, budget >>

\* ------------------------------------------------- callers in threads
\* MemoryManager takes no lock, so when its callers run in threads the
\* statements of add_message and cleanup_old_sessions interleave. Each thread
\* makes one call: process_message with a model that answers in plain text
\* (openai_handler.py:47-131), or cleanup_old_sessions.

\* an exception raised inside add_message: in the try of process_message it
\* reaches the handler of lines 133-147, which calls add_assistant_message with
\* the fallback text; raised there, it leaves process_message
AddMessageRaises(frame, exception) ==
    IF frame.in_handler
    THEN [frame EXCEPT !.pc = "finished", !.raised = Some(exception)]
    ELSE [frame EXCEPT !.pc = "check", !.role = "assistant", !.content = FallbackError,
                       !.in_handler = TRUE]

\* add_message returns: after the user message the turn goes on to read the
\* history, after the assistant message process_message returns
AddMessageReturns(frame) ==
    [frame EXCEPT !.pc = IF frame.role = "user" THEN "history" ELSE "finished"]

\* openai_handler.py:47-49: process_message calls add_user_message
ThreadTurnStart(t, session_id, user_message) ==
    /\ call[t].pc = "idle"
    /\ \A u \in TurnThreads : u < t => call[u].pc # "idle"
    /\ call' = [call EXCEPT ![t] =
                   [IdleCall EXCEPT !.pc = "check", !.op = "turn",
                                    !.session_id = session_id, !.role = "user",
                                    !.content = user_message,
                                    !.user_message = user_message]]
    /\ UNCHANGED << sessions, session_timestamps, ts_order, now, appended,
                    max_messages, turn, gate, last_call, budget >>

\* openai_handler.py:52-61: process_message reads the history and builds the
\* context for the model
ThreadReadHistory(t) ==
    /\ call[t].pc = "history"
    /\ LET conversation_history ==
               get_conversation_history(Store, call[t].session_id, Some(HistoryLimit))
       IN  call' = [call EXCEPT ![t].pc = "model",
                                ![t].conversation_history = conversation_history,
                                ![t].messages =
                                    << [role |-> "system", content |-> SYSTEM_PROMPT] >>
                                    \o SliceButLast(conversation_history)
                                    \o << [role |-> "user",
                                           content |-> call[t].user_message] >>]
    /\ UNCHANGED << sessions, session_timestamps, ts_order, now, appended,
                    max_messages, turn, gate, last_call, budget >>

\* openai_handler.py:104-117: the model has the context and answers in plain
\* text, and process_message, which reads neither conversation_history nor
\* messages again, calls add_assistant_message
ThreadModelReply(t) ==
    /\ call[t].pc = "model"
    /\ call' = [call EXCEPT ![t].pc = "check", ![t].role = "assistant",
                            ![t].content = << "Hello there." >>,
                            ![t].conversation_history = << >>,
                            ![t].messages = << >>]
    /\ UNCHANGED << sessions, session_timestamps, ts_order, now, appended,
                    max_messages, turn, gate, last_call, budget >>

\* memory.py:35, "if session_id not in self.sessions"
AddMessageCheck(t) ==
    /\ call[t].pc = "check"
    /\ LET missing == call[t].session_id \notin DOMAIN sessions
       IN  call' = [call EXCEPT ![t].missing = missing,
                                ![t].pc = IF missing THEN "create" ELSE "append"]
    /\ UNCHANGED << sessions, session_timestamps, ts_order, now, appended,
                    max_messages, turn, gate, last_call, budget >>

\* memory.py:36, "self.sessions[session_id] = []"
AddMessageCreate(t) ==
    /\ call[t].pc = "create"
    /\ sessions' = Put(sessions, call[t].session_id, << >>)
    /\ call' = [call EXCEPT ![t].pc = "append"]
    /\ UNCHANGED << session_timestamps, ts_order, now, appended,
                    max_messages, turn, gate, last_call, budget >>

\* memory.py:38-45, "self.sessions[session_id].append(message)"
AddMessageAppend(t) ==
    LET s   == call[t].session_id
        msg == Message(call[t].role, call[t].content, None, now)
    IN  /\ call[t].pc = "append"
        /\ IF s \notin DOMAIN sessions
           THEN /\ call' = [call EXCEPT ![t] = AddMessageRaises(call[t], "KeyError")]
                /\ UNCHANGED << sessions, appended >>
           ELSE /\ sessions' = Put(sessions, s, Append(sessions[s], msg))
                /\ appended' = [appended EXCEPT ![s] = Append(@, msg)]
                /\ call' = [call EXCEPT ![t].pc = "stamp",
                                        ![t].appends = Append(@, msg)]
        /\ UNCHANGED << session_timestamps, ts_order, now,
                    max_messages, turn, gate, last_call, budget >>

\* memory.py:46, "self.session_timestamps[session_id] = datetime.now()"
AddMessageStamp(t) ==
    LET s == call[t].session_id
    IN  /\ call[t].pc = "stamp"
        /\ session_timestamps' = Put(session_timestamps, s, now)
        /\ ts_order' = IF s \in DOMAIN session_timestamps THEN ts_order
                       ELSE Append(ts_order, s)
        /\ call' = [call EXCEPT ![t].pc = "trim"]
        /\ UNCHANGED << sessions, now, appended,
                    max_messages, turn, gate, last_call, budget >>

\* memory.py:49-51: the test of the length and the slice on the right-hand
\* side of the assignment
AddMessageTrimRead(t) ==
    LET s == call[t].session_id
    IN  /\ call[t].pc = "trim"
        /\ call' = [call EXCEPT ![t] =
                       IF s \notin DOMAIN sessions THEN AddMessageRaises(@, "KeyError")
                       ELSE IF Len(sessions[s]) > max_messages
                       THEN [@ EXCEPT !.pc = "store",
                                      !.slice = SliceLast(sessions[s], max_messages)]
                       ELSE AddMessageReturns(@)]
        /\ UNCHANGED << sessions, session_timestamps, ts_order, now, appended,
                    max_messages, turn, gate, last_call, budget >>

\* memory.py:51, the assignment "self.sessions[session_id] = ..."
AddMessageTrimStore(t) ==
    /\ call[t].pc = "store"
    /\ sessions' = Put(sessions, call[t].session_id, call[t].slice)
    /\ call' = [call EXCEPT ![t] = AddMessageReturns(@)]
    /\ UNCHANGED << session_timestamps, ts_order, now, appended,
                    max_messages, turn, gate, last_call, budget >>

\* memory.py:119-120: the cutoff and the empty list
SweepStart(t, hours) ==
    /\ call[t].pc = "idle"
    /\ call' = [call EXCEPT ![t] =
                   [IdleCall EXCEPT !.pc = "scan", !.op = "sweep",
                                    !.cutoff = now - hours]]
    /\ UNCHANGED << sessions, session_timestamps, ts_order, now, appended,
                    max_messages, turn, gate, last_call, budget >>

\* memory.py:122-124, one round of the loop: the first round makes the
\* iterator over session_timestamps, which notes the size of the dict; in a
\* later round it raises RuntimeError when the dict has changed size; it ends
\* the loop or yields the next item
SweepScan(t) ==
    LET f0   == call[t]
        size == Cardinality(DOMAIN session_timestamps)
        f    == IF f0.index = 1 THEN [f0 EXCEPT !.size = size] ELSE f0
    IN  /\ f.pc = "scan"
        /\ call' = [call EXCEPT ![t] =
                       IF size # f.size
                       THEN [f EXCEPT !.pc = "finished", !.raised = Some("RuntimeError")]
                       ELSE IF f.index > Len(ts_order)
                       THEN [f EXCEPT !.pc = IF f.sessions_to_remove = << >>
                                             THEN "finished" ELSE "del_sessions"]
                       ELSE [f EXCEPT !.index = @ + 1,
                                      !.sessions_to_remove =
                                          IF session_timestamps[ts_order[f.index]] < f.cutoff
                                          THEN Append(@, ts_order[f.index]) ELSE @]]
        /\ UNCHANGED << sessions, session_timestamps, ts_order, now, appended,
                    max_messages, turn, gate, last_call, budget >>

\* memory.py:127, "del self.sessions[session_id]"
SweepDeleteSession(t) ==
    LET f == call[t]
        s == Head(f.sessions_to_remove)
    IN  /\ f.pc = "del_sessions"
        /\ IF s \notin DOMAIN sessions
           THEN /\ call' = [call EXCEPT ![t].pc = "finished",
                                        ![t].raised = Some("KeyError")]
                /\ UNCHANGED << sessions, appended >>
           ELSE /\ sessions' = Del(sessions, s)
                /\ appended' = [appended EXCEPT ![s] = << >>]
                /\ call' = [call EXCEPT ![t].pc = "del_timestamp",
                                        ![t].deleted_fresh =
                                            \/ @
                                            \/ /\ s \in DOMAIN session_timestamps
                                               /\ session_timestamps[s] >= f.cutoff]
        /\ UNCHANGED << session_timestamps, ts_order, now,
                    max_messages, turn, gate, last_call, budget >>

\* memory.py:128-129, "del self.session_timestamps[session_id]" and the next
\* round of the loop
SweepDeleteTimestamp(t) ==
    LET f == call[t]
        s == Head(f.sessions_to_remove)
    IN  /\ f.pc = "del_timestamp"
        /\ IF s \notin DOMAIN session_timestamps
           THEN /\ call' = [call EXCEPT ![t].pc = "finished",
                                        ![t].raised = Some("KeyError")]
                /\ UNCHANGED << session_timestamps, ts_order >>
           ELSE /\ session_timestamps' = Del(session_timestamps, s)
                /\ ts_order' = Without(ts_order, s)
                /\ call' = [call EXCEPT ![t].sessions_to_remove = Tail(@),
                                        ![t].pc = IF Tail(f.sessions_to_remove) = << >>
                                                  THEN "finished" ELSE "del_sessions"]
        /\ UNCHANGED << sessions, now, appended,
                    max_messages, turn, gate, last_call, budget >>

\* ---------------------------------------------------------- specifications
StoreCall ==
    \/ \E s \in SessionIds, c \in UserTexts : AddUserMessage(s, c)
    \/ \E s \in SessionIds, c \in ApiContents, m \in ApiMetadata :
           AddAssistantMessage(s, c, m[1], m[2])
    \/ \E s \in SessionIds : ClearSession(s)
    \/ \E h \in Hours : CleanupOldSessions(h)

\* One worker (the event loop of main.py runs a handler to its end before the
\* next one starts): calls on the store and new turns only between turns.
Next ==
    \/ Tick
    \/ Quiet /\ StoreCall
    \/ \E r \in ChatRequests :
           Quiet /\ ValidChatRequest(r.message, r.sessionId)
                 /\ TurnStart(1, r.sessionId, r.message)
    \/ \E r \in ChatRequests : Quiet /\ ChatRejected(1, r.sessionId, r.message)
    \/ ReadHistory(1)
    \/ ModelReply(1)
    \/ DbReply(1)
    \/ SummaryReply(1)
    \/ TurnReturn(1)

Spec == Init /\ [][Next]_vars

\* the store driven through its own functions only
NextStore ==
    \/ Tick
    \/ StoreCall
    \/ \E op \in ReadOps, s \in SessionIds : ReadSession(op, s)

SpecStore == InitStoreOnly /\ [][NextStore]_vars

\* validate_sql_safety and execute_safe_query on bounded texts
NextGate == GateValidate \/ GateExecuteSafe

SpecGate == InitGate /\ [][NextGate]_vars

\* the store called from threads
NextThreads ==
    \/ Tick
    \/ \E t \in TurnThreads, s \in SessionIds : ThreadTurnStart(t, s, Said[t])
    \/ \E t \in Threads : ThreadReadHistory(t)
    \/ \E t \in Threads : ThreadModelReply(t)
    \/ \E t \in Threads : AddMessageCheck(t)
    \/ \E t \in Threads : AddMessageCreate(t)
    \/ \E t \in Threads : AddMessageAppend(t)
    \/ \E t \in Threads : AddMessageStamp(t)
    \/ \E t \in Threads : AddMessageTrimRead(t)
    \/ \E t \in Threads : AddMessageTrimStore(t)
    \/ \E t \in SweepThreads, h \in Hours : SweepStart(t, h)
    \/ \E t \in Threads : SweepScan(t)
    \/ \E t \in Threads : SweepDeleteSession(t)
    \/ \E t \in Threads : SweepDeleteTimestamp(t)

SpecThreads == InitThreads /\ [][NextThreads]_vars

\* ================================================================= claims
Min(a, b) == IF a <= b THEN a ELSE b

\* the last k elements of a sequence, for 0 <= k <= Len(seq)
LastOf(seq, k) == [i \in 1..k |-> seq[Len(seq) - k + i]]

LowerTable ==
    ("A" :> "a") @@ ("B" :> "b") @@ ("C" :> "c") @@ ("D" :> "d") @@ ("E" :>
    "e") @@ ("F" :> "f") @@ ("G" :> "g") @@ ("H" :> "h") @@ ("I" :> "i") @@
    ("J" :> "j") @@ ("K" :> "k") @@ ("L" :> "l") @@ ("M" :> "m") @@ ("N" :>
    "n") @@ ("O" :> "o") @@ ("P" :> "p") @@ ("Q" :> "q") @@ ("R" :> "r") @@
    ("S" :> "s") @@ ("T" :> "t") @@ ("U" :> "u") @@ ("V" :> "v") @@ ("W" :>
    "w") @@ ("X" :> "x") @@ ("Y" :> "y") @@ ("Z" :> "z")

LowerChar(c) == IF c \in DOMAIN LowerTable THEN LowerTable[c] ELSE c

\* word occurs in text at offset i, letter case ignored
OccursAt(text, word, i) ==
    /\ i + Len(word) <= Len(text)
    /\ \A j \in 1..Len(word) : LowerChar(text[i + j]) = LowerChar(word[j])

OccursIgnoringCase(text, word) == \E i \in 0..Len(text) : OccursAt(text, word, i)

DenyListed(text) ==
    \E k \in 1..Len(dangerous_keywords) : OccursIgnoringCase(text, dangerous_keywords[k])

\* text is some whitespace followed by word, letter case ignored
StartsAfterBlanks(text, word) ==
    \E i \in 0..Len(text) :
        /\ \A j \in 1..i : text[j] \in Whitespace
        /\ OccursAt(text, word, i)

\* the turn of worker t has gone through the gate with a text the gate rejects
RejectedByGate(t) ==
    /\ turn[t].reply.kind = "tool"
    /\ turn[t].reply.name = "execute_sql"
    /\ turn[t].reply.arguments.json = "object"
    /\ ~validate_sql_safety(Get(turn[t].reply.arguments.value, "query", << >>))

\* the appends of a finished turn: the user message, then one assistant message
UserThenAssistant(t) ==
    LET a == turn[t].appends
    IN  /\ Len(a) = 2
        /\ a[1].role = "user" /\ a[1].content = turn[t].user_message
        /\ a[2].role = "assistant"
        /\ Len(appended[turn[t].session_id]) >= 2
        /\ LastOf(appended[turn[t].session_id], 2) = a

\* the failures after which a turn cannot succeed
FatalFailures == { "model", "arguments", "gate", "store", "serialise" }

\* C1: for a bound N >= 1, every session holds at most N messages in every
\* state reached by direct store calls, clears, sweeps and chat turns.
C1_Bounded ==
    max_messages >= 1 =>
        \A s \in DOMAIN sessions : Len(sessions[s]) <= max_messages

C1_Witness ==
    \E s \in DOMAIN sessions :
        /\ max_messages >= 1
        /\ Len(appended[s]) > max_messages
        /\ Len(sessions[s]) = max_messages
        /\ turn[1].pc = "done" /\ turn[1].session_id = s

\* C2: with turns run one after another, a turn in flight has appended its user
\* message only, and a finished turn has appended exactly its user message and
\* then exactly one assistant message, whatever branch it took.
C2_OneUserOneAssistant ==
    \A t \in Turns :
        /\ turn[t].pc \in { "history", "decide", "db", "summarise" } =>
               /\ Len(turn[t].appends) = 1
               /\ turn[t].appends[1].role = "user"
        /\ turn[t].pc = "done" => UserThenAssistant(t)

C2_Witness ==
    /\ turn[1].pc = "done"
    /\ "store" \in turn[1].failures
    /\ budget.turns = 0
    /\ Len(appended[turn[1].session_id]) = 4

\* C3: a turn whose execute_sql text is rejected by validate_sql_safety never
\* calls execute_query, ends with type database_error or error, and has
\* appended the user message and one assistant message without SQL metadata.
C3_RejectedNeverExecuted ==
    \A t \in Turns :
        RejectedByGate(t) =>
            /\ turn[t].pc = "done"
            /\ turn[t].executed = << >>
            /\ turn[t].result.type \in { "database_error", "error" }
            /\ UserThenAssistant(t)
            /\ turn[t].appends[2].content = turn[t].result.response
            /\ DOMAIN turn[t].appends[2].metadata = {}

C3_Witness ==
    /\ RejectedByGate(1)
    /\ turn[1].reply.arguments.value = [query |-> SqlDropbox]
    /\ turn[1].result.type = "database_error"

\* C4: a text that contains a deny-listed word, in any letter case and at any
\* position, is rejected by validate_sql_safety.
C4_DenyListRejected ==
    (gate.stage \in { "validated", "executed" } /\ DenyListed(gate.sql)) => ~gate.valid

C4_Witness ==
    /\ gate.stage = "validated"
    /\ ~gate.valid
    /\ gate.sql = Flatten(<< KW_SELECT \o << " " >>, << "d", "R", "o", "P" >>,
                             << "B", "O", "X" >> >>)

C6_FifoTrim ==
    max_messages >= 1 =>
        \A s \in DOMAIN sessions :
            sessions[s] = LastOf(appended[s], Min(Len(appended[s]), max_messages))

C6_Witness ==
    \E s \in DOMAIN sessions :
        /\ max_messages >= 2
        /\ Len(appended[s]) > max_messages
        /\ sessions[s][1] = appended[s][Len(appended[s]) - max_messages + 1]

\* C7: with a bound N >= 1, after add_user_message and then
\* add_assistant_message(content, Q, R) with Q non-empty, get_last_sql_query
\* gives Q and get_last_sql_results gives R.
C7_RoundTrip ==
    LET s == last_call.session_id
    IN  ( /\ max_messages >= 1
          /\ last_call.op = "add_assistant_message"
          /\ TruthyOpt(last_call.sql_query)
          /\ last_call.sql_results # None
          /\ Len(appended[s]) >= 2
          /\ appended[s][Len(appended[s]) - 1].role = "user" )
        => /\ get_last_sql_query(Store, s) = last_call.sql_query
           /\ get_last_sql_results(Store, s) = last_call.sql_results

\* C8: when the store fails, neither the response nor the appended assistant
\* message contains the text of the store's error.
C8_StoreErrorNotEchoed ==
    \A t \in Turns :
        (turn[t].pc = "done" /\ turn[t].store_error # None) =>
            /\ ~Contains(turn[t].result.response, turn[t].store_error[1])
            /\ ~Contains(turn[t].appends[Len(turn[t].appends)].content,
                         turn[t].store_error[1])

\* C9: process_message never raises; a turn in which the model call, the
\* argument parsing, the gate, the store or the serialisation failed has
\* returned type error or database_error with a response text, and has
\* appended exactly one assistant message, the response, after the user message.
C9_NeverRaises ==
    \A t \in Turns :
        /\ ~turn[t].raised
        /\ turn[t].failures \cap FatalFailures # {} =>
               /\ turn[t].pc = "done"
               /\ DOMAIN turn[t].result = { "response", "type", "debug" }
               /\ turn[t].result.type \in { "error", "database_error" }
               /\ turn[t].result.response # << >>
               /\ UserThenAssistant(t)
               /\ turn[t].appends[2].content = turn[t].result.response
               /\ DOMAIN turn[t].appends[2].metadata = {}

C9_Witness ==
    /\ turn[1].pc = "done"
    /\ "serialise" \in turn[1].failures
    /\ turn[1].result.type = "error"

\* C10: every outcome of a turn has the keys response, type and debug, and its
\* debug mapping has the keys sql_query and sql_results.
C10_DebugKeys ==
    \A t \in Turns :
        (turn[t].pc = "done" /\ ~turn[t].raised) =>
            /\ DOMAIN turn[t].result = { "response", "type", "debug" }
            /\ { "sql_query", "sql_results" } \subseteq DOMAIN turn[t].result.debug

\* the turn of worker t got a direct reply from the model: plain content, or a
\* respond_directly call with a message
DecidedDirect(t) ==
    \/ turn[t].reply.kind = "content" /\ Truthy(turn[t].reply.content)
    \/ /\ turn[t].reply.kind = "tool"
       /\ turn[t].reply.name = "respond_directly"
       /\ turn[t].reply.arguments.json = "object"
       /\ "message" \in DOMAIN turn[t].reply.arguments.value

\* the text T of that reply
DirectText(t) ==
    IF turn[t].reply.kind = "content" THEN turn[t].reply.content
    ELSE turn[t].reply.arguments.value.message

\* C11: a turn in which the model replied directly with text T, as plain
\* content or through respond_directly, has run no query, has appended one
\* assistant message with content T and empty metadata, and returns type
\* "direct" with response T.
C11_DirectReply ==
    \A t \in Turns :
        (turn[t].pc = "done" /\ DecidedDirect(t)) =>
            /\ turn[t].executed = << >>
            /\ UserThenAssistant(t)
            /\ turn[t].appends[2].content = DirectText(t)
            /\ DOMAIN turn[t].appends[2].metadata = {}
            /\ turn[t].result.response = DirectText(t)
            /\ turn[t].result.type = "direct"

\* the turn of worker t ran its query and the summarising call has answered
Summarised(t) == turn[t].pc = "done" /\ turn[t].summary.kind # "none"

\* C12: a turn whose execute_sql text Q passed the gate and whose execution
\* returned rows R returns type "sql_analysis" with the summary S as response,
\* and its one assistant message has content S and the metadata
\* {sql_query: Q, sql_results: R}.
C12_SqlAnalysis ==
    \A t \in Turns :
        Summarised(t) =>
            /\ turn[t].executed = << turn[t].reply.arguments.value.query >>
            /\ turn[t].result.type = "sql_analysis"
            /\ turn[t].summary.kind = "content" /\ Truthy(turn[t].summary.content)
                   => turn[t].result.response = turn[t].summary.content
            /\ UserThenAssistant(t)
            /\ turn[t].appends[2].content = turn[t].result.response
            /\ turn[t].appends[2].metadata =
                   [sql_query |-> turn[t].reply.arguments.value.query,
                    sql_results |-> turn[t].sql_results]

\* the text of the local formatter for rows R, from its description
LocalFormat(R) ==
    IF Len(R) = 0 THEN << "No matching results found." >>
    ELSE IF Len(R) = 1 /\ Cardinality(DOMAIN R[1]) = 1
    THEN << "Result: ", ToString(R[1][CHOOSE k \in DOMAIN R[1] : TRUE]) >>
    ELSE << "Found ", ToString(Len(R)), " results. ",
            ToString(SubSeq(R, 1, Min(3, Len(R)))) >>

\* C13: a turn whose query succeeded and whose summarising call raised returns
\* type "sql_analysis" and has appended exactly one assistant message, whose
\* text is the local formatter's: "No matching results found." for no row, the
\* value for one row of one column, else the row count and the first rows, at
\* most three.
C13_LocalFormatter ==
    \A t \in Turns :
        (turn[t].pc = "done" /\ "summary" \in turn[t].failures) =>
            /\ turn[t].result.type = "sql_analysis"
            /\ UserThenAssistant(t)
            /\ turn[t].appends[2].content = LocalFormat(turn[t].sql_results)
            /\ turn[t].result.response = LocalFormat(turn[t].sql_results)

C13_Witness ==
    /\ turn[1].pc = "done"
    /\ "summary" \in turn[1].failures
    /\ Len(turn[1].sql_results) = 4
    /\ turn[1].result.response =
           << "Found ", "4", " results. ", ToString(<< Row2, Row2, Row2 >>) >>

Appends == { "add_user_message", "add_assistant_message" }

\* C14: right after clear_session(s), for a known, an unknown or an already
\* cleared session, get_session_info(s) is exactly {exists: false} and a second
\* clear changes nothing; an append right after a clear of s leaves s with the
\* new message only.
C14_ClearThenInfo ==
    LET s == last_call.session_id
    IN  /\ last_call.op = "clear_session" =>
               /\ get_session_info(Store, s) = [exists |-> FALSE]
               /\ clear_session(Store, s) = Store
        /\ (last_call.op \in Appends /\ last_call.after_clear) =>
               /\ s \in DOMAIN sessions
               /\ Len(sessions[s]) = 1
               /\ sessions[s] = appended[s]
               /\ sessions[s][1].content = last_call.content
               /\ sessions[s][1].role =
                      (IF last_call.op = "add_user_message" THEN "user" ELSE "assistant")

C14_Witness ==
    /\ last_call.op = "clear_session"
    /\ last_call.session_id \in DOMAIN session_timestamps
    /\ last_call.session_id \notin DOMAIN sessions
    /\ \E s \in DOMAIN sessions : s # last_call.session_id

\* C15: after clear_session(s) the store holds neither a message list nor a
\* timestamp for s; in every reachable state the sessions with a message list
\* are the sessions with a timestamp.
C15_SameKeys ==
    /\ last_call.op = "clear_session" =>
           /\ last_call.session_id \notin DOMAIN sessions
           /\ last_call.session_id \notin DOMAIN session_timestamps
    /\ DOMAIN sessions = DOMAIN session_timestamps

\* C16: right after cleanup_old_sessions(hours) called at time t, every session
\* the sweep removed had its last activity strictly before t - hours, and every
\* session whose last activity was at or after t - hours is still there with
\* the same messages and the same timestamp.
C16_SweepKeepsRecent ==
    LET before == last_call.before
        cutoff == last_call.at - last_call.hours
    IN  last_call.op = "cleanup_old_sessions" =>
            \A s \in DOMAIN before.sessions :
                /\ s \notin DOMAIN sessions => before.session_timestamps[s] < cutoff
                /\ before.session_timestamps[s] >= cutoff =>
                       /\ s \in DOMAIN sessions
                       /\ sessions[s] = before.sessions[s]
                       /\ s \in DOMAIN session_timestamps
                       /\ session_timestamps[s] = before.session_timestamps[s]

C16_Witness ==
    /\ last_call.op = "cleanup_old_sessions"
    /\ \E s \in DOMAIN last_call.before.sessions : s \notin DOMAIN sessions
    /\ \E s \in DOMAIN sessions :
           session_timestamps[s] = last_call.at - last_call.hours

\* C17: after any appends and clears, cleanup_old_sessions(hours) called at time
\* t does not raise, and afterwards the store holds no session whose last
\* activity is before t - hours.
C17_SweepCompletes ==
    last_call.op = "cleanup_old_sessions" =>
        /\ ~last_call.raised
        /\ \A s \in DOMAIN session_timestamps :
               session_timestamps[s] >= last_call.at - last_call.hours
        /\ DOMAIN sessions \subseteq DOMAIN session_timestamps

\* no thread is inside add_message or cleanup_old_sessions
NoCallInProgress ==
    \A t \in Threads : call[t].pc \in { "idle", "history", "model", "finished" }

\* C18: when two turns for the same session run in threads and no sweep
\* runs, then, whenever no call on the store is in progress, the session holds
\* at most N messages, namely the last min(k, N) of the k messages appended to
\* it, in append order; no turn has raised, and a finished turn has appended
\* its user message and then one assistant message.
C18_ConcurrentTurns ==
    ( /\ \A t \in TurnThreads : call[t].op = "turn"
      /\ \A t, u \in TurnThreads : call[t].session_id = call[u].session_id
      /\ \A t \in SweepThreads : call[t].pc = "idle"
      /\ NoCallInProgress )
    => /\ \A s \in SessionIds :
              appended[s] # << >> =>
                  /\ s \in DOMAIN sessions
                  /\ Len(sessions[s]) <= max_messages
                  /\ sessions[s] = LastOf(appended[s], Min(Len(appended[s]), max_messages))
       /\ \A t \in TurnThreads :
              /\ call[t].raised = None
              /\ call[t].pc = "finished" =>
                     /\ Len(call[t].appends) = 2
                     /\ call[t].appends[1].role = "user"
                     /\ call[t].appends[2].role = "assistant"

\* C19: a sweep that runs in a thread beside chat turns never raises, never
\* deletes the message list of a session whose timestamp is at or after the
\* sweep's cutoff, and, whenever no call on the store is in progress, leaves
\* the sessions with a message list equal to the sessions with a timestamp.
C19_SweepExclusion ==
    \A t \in SweepThreads :
        call[t].op = "sweep" =>
            /\ call[t].raised = None
            /\ ~call[t].deleted_fresh
            /\ NoCallInProgress => DOMAIN sessions = DOMAIN session_timestamps

\* C20: a turn suspended in a model call or in the database call, where an
\* abandoned turn stops for good, has appended nothing since it started.
C20_AbandonedAppendsNothing ==
    \A t \in Turns :
        turn[t].pc \in { "decide", "db", "summarise" } => turn[t].appends = << >>

\* a stored message reduced to the keys role and content
RoleAndContent(message) == [role |-> message.role, content |-> message.content]

\* the messages stored for s, none for an unknown session
StoredMessages(s) == IF s \in DOMAIN sessions THEN sessions[s] ELSE << >>

\* C21: for every session, known or not, and every limit in 0..MaxN+1,
\* get_conversation_history gives the last min(limit, count) stored messages in
\* stored order, each reduced to role and content; without a limit it gives
\* all of them.
C21_HistoryLimit ==
    \A s \in SessionIds :
        LET all == StoredMessages(s)
        IN  /\ get_conversation_history(Store, s, None) =
                   [i \in 1..Len(all) |-> RoleAndContent(all[i])]
            /\ \A limit \in 0..(MaxN + 1) :
                   LET k == Min(limit, Len(all))
                   IN  get_conversation_history(Store, s, Some(limit)) =
                           [i \in 1..k |-> RoleAndContent(all[Len(all) - k + i])]

\* C22: a chat request whose message is blank or whose session id is empty is
\* rejected with status 400 before process_message runs: it has appended
\* nothing, run nothing, and no session has been created for the empty id.
C22_InvalidRequestRejected ==
    \A t \in Turns :
        ( /\ turn[t].pc # "idle"
          /\ \/ \A i \in 1..Len(turn[t].user_message) :
                    turn[t].user_message[i] \in Whitespace
             \/ turn[t].session_id = "" )
        => /\ turn[t].pc = "rejected"
           /\ turn[t].result.status_code = 400
           /\ turn[t].appends = << >>
           /\ turn[t].executed = << >>
           /\ "" \notin DOMAIN sessions
           /\ "" \notin DOMAIN session_timestamps

C22_Witness ==
    /\ turn[1].pc = "rejected"
    /\ turn[1].user_message = << " ", "\n" >>
    /\ turn[1].session_id \in DOMAIN sessions
    /\ Len(sessions[turn[1].session_id]) = Len(appended[turn[1].session_id])

\* C23: every statement a turn hands to the store gives a result set: the
\* turn never gets the affected-row-count outcome and never runs a statement
\* that changes the store.
C23_ValidatedGivesRows ==
    \A t \in Turns :
        /\ \A i \in 1..Len(turn[t].executed) :
               /\ validate_sql_safety(turn[t].executed[i])
               /\ ~ReturnsNoResultSet(turn[t].executed[i])
        /\ \A i \in 1..Len(turn[t].sql_results) :
               "affected_rows" \notin DOMAIN turn[t].sql_results[i]

\* C24: a turn whose call of execute_query failed, in connect or in the
\* statement, with a driver error or with any other exception, has caught a
\* DatabaseError: it returns type "database_error" and the error it reports is
\* the DatabaseError's message around the failure's text.
C24_OnlyDatabaseError ==
    \A t \in Turns :
        "store" \in turn[t].failures =>
            /\ turn[t].pc = "done"
            /\ ~turn[t].raised
            /\ turn[t].result.type = "database_error"
            /\ turn[t].result.debug.error \in
                   { QueryFailedMessage(turn[t].store_error[1]),
                     UnexpectedMessage(turn[t].store_error[1]) }

C24_Witness ==
    /\ turn[1].pc = "done"
    /\ turn[1].store_error = Some(<< "connection reset" >>)
    /\ turn[1].result.debug.error = << "Unexpected database error: ", "connection reset" >>

\* C25: when execute_query has returned or raised, it has opened at most one
\* connection, has closed every connection it opened, and the transaction of
\* its statement has been committed or rolled back.
C25_ConnectionReleased ==
    \A t \in Turns :
        (turn[t].executed # << >> /\ turn[t].pc \in { "summarise", "done" }) =>
            /\ turn[t].connection.opened <= 1
            /\ turn[t].connection.closed = turn[t].connection.opened
            /\ turn[t].connection.transaction \in { "none", "committed", "rolled_back" }

\* the turn of worker t got a tool call naming a function that does not exist
UnknownFunctionCalled(t) ==
    /\ turn[t].reply.kind = "tool"
    /\ turn[t].reply.name \notin { "execute_sql", "respond_directly" }

\* C26: a turn whose tool call names a function other than execute_sql and
\* respond_directly has run no query, has appended exactly one assistant
\* message, a generic error text without metadata, and returns type "error".
C26_UnknownFunction ==
    \A t \in Turns :
        UnknownFunctionCalled(t) =>
            /\ turn[t].pc = "done"
            /\ turn[t].executed = << >>
            /\ turn[t].result.type = "error"
            /\ turn[t].result.response \in { UnknownFunctionError, FallbackError }
            /\ UserThenAssistant(t)
            /\ turn[t].appends[2].content = turn[t].result.response
            /\ DOMAIN turn[t].appends[2].metadata = {}

C26_Witness ==
    /\ UnknownFunctionCalled(1)
    /\ turn[1].reply.arguments.json = "object"
    /\ turn[1].reply.arguments.value = [query |-> SqlSelect]
    /\ turn[1].result.response = UnknownFunctionError

\* C27: for a session without a message list get_session_info is exactly
\* {exists: false}; for a known session it gives the number of stored messages,
\* the time of the latest append, and has_sql_history true exactly when
\* get_last_sql_query gives a query.
C27_SessionInfo ==
    \A s \in SessionIds :
        LET info == get_session_info(Store, s)
        IN  IF s \notin DOMAIN sessions THEN info = [exists |-> FALSE]
            ELSE /\ DOMAIN info =
                        { "exists", "message_count", "last_activity", "has_sql_history" }
                 /\ info.exists
                 /\ info.message_count = Len(sessions[s])
                 /\ appended[s] # << >>
                 /\ info.last_activity = appended[s][Len(appended[s])].timestamp
                 /\ info.has_sql_history <=> (get_last_sql_query(Store, s) # None)

C27_Witness ==
    \E s \in DOMAIN sessions :
        /\ get_session_info(Store, s).message_count = 2
        /\ get_session_info(Store, s).has_sql_history
        /\ get_session_info(Store, s).last_activity = 1
        /\ DOMAIN sessions[s][2].metadata = {}
        /\ sessions[s][1].timestamp = 0

\* C28: with the bound set to 0 a session stores no message after any append.
C28_ZeroBound ==
    max_messages = 0 => \A s \in DOMAIN sessions : Len(sessions[s]) = 0

\* the positions of the stored messages whose metadata has a non-empty key
Holders(list, key) ==
    { i \in 1..Len(list) :
          key \in DOMAIN list[i].metadata /\ list[i].metadata[key] # << >> }

\* the metadata[key] of the newest of these messages, None without one
NewestHeld(list, key) ==
    IF Holders(list, key) = {} THEN None
    ELSE LET i == CHOOSE h \in Holders(list, key) : \A j \in Holders(list, key) : j <= h
         IN  Some(list[i].metadata[key])

\* C29: get_last_sql_query gives the sql_query of the newest stored message
\* that has a non-empty one, and None when no stored message has one, also
\* when the message that had one has been trimmed out; get_last_sql_results
\* does the same for sql_results.
C29_LastStored ==
    \A s \in SessionIds :
        /\ get_last_sql_query(Store, s) = NewestHeld(StoredMessages(s), "sql_query")
        /\ get_last_sql_results(Store, s) = NewestHeld(StoredMessages(s), "sql_results")

C29_Witness ==
    \E s \in DOMAIN sessions :
        /\ max_messages >= 1
        /\ Holders(appended[s], "sql_query") # {}
        /\ sessions[s] # << >>
        /\ get_last_sql_query(Store, s) = None

\* C30: the text execute_safe_query hands to execute_query is the text that
\* was validated, character for character; a rejected text is not handed on.
C30_HandedVerbatim ==
    gate.stage = "executed" =>
        /\ gate.valid => gate.handed = Some(gate.sql)
        /\ ~gate.valid => gate.handed = None

C30_Witness ==
    /\ gate.stage = "executed"
    /\ gate.valid
    /\ gate.sql = << "\n", "s", "e", "l", "e", "c", "t", " ", "x" >>
    /\ gate.handed = Some(gate.sql)

\* position i holds the newest stored message of the list with a non-empty key
NewestHolder(list, key, i) ==
    /\ i \in Holders(list, key)
    /\ \A j \in Holders(list, key) : j <= i

\* C31: whenever get_last_sql_query and get_last_sql_results both give a
\* value for a session, one stored assistant message holds both: the results
\* are the results of the query, also after a later query with zero rows.
C31_QueryWithItsResults ==
    \A s \in SessionIds :
        LET q == get_last_sql_query(Store, s)
            r == get_last_sql_results(Store, s)
        IN  (q # None /\ r # None) =>
                \E i \in 1..Len(sessions[s]) :
                    /\ sessions[s][i].role = "assistant"
                    /\ NewestHolder(sessions[s], "sql_query", i)
                    /\ NewestHolder(sessions[s], "sql_results", i)
                    /\ sessions[s][i].metadata["sql_query"] = q[1]
                    /\ sessions[s][i].metadata["sql_results"] = r[1]

\* the longest history that can go into the context
MaxEarlier == HistoryLimit - 1

\* the utterance of thread t as it is sent to the model
Utterance(t) == [role |-> "user", content |-> call[t].user_message]

\* what the history read of thread t found without the utterance of t
EarlierRead(t) ==
    SelectSeq(call[t].conversation_history, LAMBDA m : m # Utterance(t))

\* C32: the context a turn has built for the model is the system prompt, then
\* at most 9 of the most recent earlier messages of its session in stored
\* order, then its utterance, which occurs once, as the last element, also
\* when another turn of the session has appended between this turn's user
\* append and its history read; the utterance of a turn of another session
\* is not in it.
C32_ModelContext ==
    \A t \in TurnThreads :
        call[t].pc = "model" =>
            /\ call[t].messages =
                   << [role |-> "system", content |-> SYSTEM_PROMPT] >>
                   \o LastOf(EarlierRead(t), Min(Len(EarlierRead(t)), MaxEarlier))
                   \o << Utterance(t) >>
            /\ \A u \in TurnThreads, i \in 1..Len(call[t].messages) :
                   /\ u # t
                   /\ call[u].op = "turn"
                   /\ call[u].session_id # call[t].session_id
                   => call[t].messages[i] # Utterance(u)

\* the message holds a non-empty sql_query
HoldsQuery(message) ==
    /\ "sql_query" \in DOMAIN message.metadata
    /\ message.metadata["sql_query"] # << >>

\* C33: every non-empty sql_query in the metadata of a stored message is a
\* text that validate_sql_safety accepts; a message a chat turn appended with
\* a query holds the one text the turn handed to execute_query, which returned
\* without error; a turn whose query was rejected or failed has stored no
\* query, and a rejected text is not what get_last_sql_query gives.
C33_StoredQueryWasExecuted ==
    /\ \A s \in DOMAIN sessions :
           \A i \in 1..Len(sessions[s]) :
               HoldsQuery(sessions[s][i]) =>
                   validate_sql_safety(sessions[s][i].metadata["sql_query"])
    /\ \A t \in Turns :
           turn[t].pc = "done" =>
               /\ \A i \in 1..Len(turn[t].appends) :
                      HoldsQuery(turn[t].appends[i]) =>
                          /\ validate_sql_safety(turn[t].appends[i].metadata["sql_query"])
                          /\ turn[t].executed =
                                 << turn[t].appends[i].metadata["sql_query"] >>
                          /\ turn[t].connection.opened = 1
                          /\ turn[t].store_error = None
                          /\ turn[t].failures \cap FatalFailures = {}
               /\ (RejectedByGate(t) \/ "store" \in turn[t].failures) =>
                      \A i \in 1..Len(turn[t].appends) : ~HoldsQuery(turn[t].appends[i])
               /\ RejectedByGate(t) =>
                      get_last_sql_query(Store, turn[t].session_id)
                          # Some(Get(turn[t].reply.arguments.value, "query", << >>))

C33_Witness ==
    /\ turn[1].pc = "done"
    /\ Len(turn[1].appends) = 2
    /\ HoldsQuery(turn[1].appends[2])
    /\ turn[1].executed = << SqlSelect >>
    /\ turn[1].summary.kind = "raise"
    /\ get_last_sql_query(Store, turn[1].session_id) = Some(SqlSelect)

\* what the store holds for session b: its messages and its last-activity
\* timestamp, None for what it does not hold
SessionView(b) ==
    [messages |-> IF b \in DOMAIN sessions THEN Some(sessions[b]) ELSE None,
     last_activity |-> IF b \in DOMAIN session_timestamps
                       THEN Some(session_timestamps[b]) ELSE None]

\* C34: a step that changes the messages or the timestamp of a session b is,
\* when it is an append or a clear, an append to b or a clear of b, and, when
\* it is a step of a chat turn, a step of a turn in session b: add_message,
\* clear_session and a turn in another session leave b as it was.
C34_OtherSessionsUntouched ==
    [][ \A b \in SessionIds :
            SessionView(b)' # SessionView(b) =>
                /\ last_call'.op \in { "add_user_message", "add_assistant_message",
                                       "clear_session" }
                       => last_call'.session_id = b
                /\ \A t \in Turns :
                       turn'[t].pc # "idle" => turn'[t].session_id = b ]_vars

C34_Witness ==
    /\ turn[1].pc = "done"
    /\ turn[1].session_id = "s1"
    /\ Len(turn[1].appends) = 2
    /\ now = 1
    /\ SessionView("s1").last_activity = Some(1)
    /\ SessionView("s2").last_activity = Some(0)
    /\ SessionView("s2").messages = Some(appended["s2"])
    /\ appended["s2"] # << >>

====
